---- MODULE Spec2Model ----
(***************************************************************************)
(* DeepLabV2 (paddleseg/models/deeplabv2.py): a backbone, an ASPP head     *)
(* (parallel dilated 3x3 convolutions, summed) and a bilinear upsampling   *)
(* of the logits to the input's height and width.                         *)
(*                                                                         *)
(* A tensor is its data, data[n][c][i][j] (batch, channel, row, column),   *)
(* as nested sequences of integers; every dimension is at least 1.         *)
(* A Python value is a record with a field "kind":                        *)
(*   [kind |-> "tensor", data |-> ...]   a tensor                          *)
(*   [kind |-> "int", value |-> 0]       a Python int                      *)
(*   [kind |-> "error", err |-> ...]     an exception raised to the caller *)
(***************************************************************************)
EXTENDS Integers, Sequences, FiniteSets, TLC

VARIABLES pc, args, model, err, loads, ckpt, call

vars == <<pc, args, model, err, loads, ckpt, call>>

(* ------------------------------ bounds -------------------------------- *)

\* Largest height and width of an input image.
MaxSize == 4
\* Longest sequence of ASPP dilation ratios.
MaxRatios == 2
\* Largest number of classes.
MaxClasses == 2

\* Dilation ratios a configuration draws from.
RatioValues == {1, 2}
\* Lengths of backbone_indices.
IndexLens == {0, 1, 2}
\* Backbone indices a configuration draws from (Python indices, negative allowed).
IndexValues == {-3, -1, 0, 2}
\* Input shapes <<B, C, H, W>>.
InputShapes ==
    {<<1, 1, h, h>> : h \in 1..MaxSize} \cup {<<1, 1, MaxSize - 1, MaxSize>>}
        \cup {<<2, 2, 2, 2>>}
\* Seeds of the values of an input.
InputSeeds == {1}

(* ------------------------------ helpers ------------------------------- *)

None == [kind |-> "none"]

Tensor(d) == [kind |-> "tensor", data |-> d]

PyInt(v) == [kind |-> "int", value |-> v]

Raise(e) == [kind |-> "error", err |-> e]

\* paddle.shape(x): <<B, C, H, W>>
Shape(d) == <<Len(d), Len(d[1]), Len(d[1][1]), Len(d[1][1][1])>>

RECURSIVE SumFn(_, _)
\* f[1] + ... + f[n]
SumFn(f, n) == IF n = 0 THEN 0 ELSE f[n] + SumFn(f, n - 1)

\* Python's seq[i]: i in -len..len-1, negative counting from the end.
PyInRange(seq, i) == i >= -Len(seq) /\ i < Len(seq)

PyIndex(seq, i) == IF i >= 0 THEN seq[i + 1] ELSE seq[Len(seq) + i + 1]

CeilDiv(a, b) == (a + b - 1) \div b

(* ------------------- framework primitives (paddle) -------------------- *)

\* Kernel size of every ASPP convolution.
KernelSize == 3

\* nn.Conv2D's initial weight of block k, weight[o][ci][a][b].
DefaultWeight(k, out_channels, in_channels) ==
    [o \in 1..out_channels |-> [ci \in 1..in_channels |->
        [a \in 1..KernelSize |-> [b \in 1..KernelSize |->
            ((k + o + ci + a * a + a * b) % 4) - 1]]]]

\* nn.Conv2D's initial bias of block k, bias[o], before ASPPModule sets it.
DefaultBias(k, out_channels) == [o \in 1..out_channels |-> 1 + ((k + o) % 2)]

\* nn.Conv2D(in_channels, out_channels, kernel_size, dilation, padding), stride 1.
Conv2D(k, in_channels, out_channels, kernel_size, dilation, padding) ==
    [in_channels |-> in_channels, out_channels |-> out_channels,
     kernel_size |-> kernel_size, dilation |-> dilation, padding |-> padding,
     weight |-> DefaultWeight(k, out_channels, in_channels),
     bias |-> DefaultBias(k, out_channels)]

\* Output height (or width) of a stride-1 convolution on an input of size h.
ConvOutSize(blk, h) == h + 2 * blk.padding - blk.dilation * (blk.kernel_size - 1)

\* The zero-padded input at 1-based row r and column q of channel ci.
Padded(d, n, ci, r, q) ==
    IF r >= 1 /\ r <= Len(d[n][ci]) /\ q >= 1 /\ q <= Len(d[n][ci][1])
    THEN d[n][ci][r][q] ELSE 0

\* One output element of the convolution: bias plus the sum over the taps
\* (ci, a, b), tap (a, b) reading the input dilation*(a-1) - padding rows and
\* dilation*(b-1) - padding columns from the output position.
ConvAt(blk, d, n, o, i, j) ==
    LET K == blk.kernel_size
        taps == [t \in 1..(blk.in_channels * K * K) |->
            LET ci == ((t - 1) \div (K * K)) + 1
                a == (((t - 1) % (K * K)) \div K) + 1
                b == ((t - 1) % K) + 1
            IN  blk.weight[o][ci][a][b] *
                Padded(d, n, ci, i + (a - 1) * blk.dilation - blk.padding,
                                 j + (b - 1) * blk.dilation - blk.padding)]
    IN  blk.bias[o] + SumFn(taps, blk.in_channels * K * K)

\* block(x): a Conv2D layer applied to a Python value.
ConvForward(blk, x) ==
    IF x.kind # "tensor" THEN Raise("TypeError")
    ELSE LET sh == Shape(x.data)
             oh == ConvOutSize(blk, sh[3])
             ow == ConvOutSize(blk, sh[4])
         IN  IF sh[2] # blk.in_channels \/ oh <= 0 \/ ow <= 0
             THEN Raise("ValueError")
             ELSE Tensor([n \in 1..sh[1] |-> [o \in 1..blk.out_channels |->
                     [i \in 1..oh |-> [j \in 1..ow |->
                         ConvAt(blk, x.data, n, o, i, j)]]]])

\* Two sizes broadcast when they are equal or one of them is 1.
Broadcastable(sa, sb) == \A k \in 1..4 : sa[k] = sb[k] \/ sa[k] = 1 \/ sb[k] = 1

BIdx(size, i) == IF size = 1 THEN 1 ELSE i

Max(a, b) == IF a >= b THEN a ELSE b

Min(a, b) == IF a <= b THEN a ELSE b

\* a + b of Python values: int + int, int + tensor, tensor + tensor (broadcast).
PyAdd(x, y) ==
    IF x.kind = "error" THEN x
    ELSE IF y.kind = "error" THEN y
    ELSE IF x.kind = "int" /\ y.kind = "int" THEN PyInt(x.value + y.value)
    ELSE IF x.kind = "int" THEN
        LET sh == Shape(y.data)
        IN  Tensor([n \in 1..sh[1] |-> [c \in 1..sh[2] |-> [i \in 1..sh[3] |->
                [j \in 1..sh[4] |-> x.value + y.data[n][c][i][j]]]]])
    ELSE IF y.kind = "int" THEN
        LET sh == Shape(x.data)
        IN  Tensor([n \in 1..sh[1] |-> [c \in 1..sh[2] |-> [i \in 1..sh[3] |->
                [j \in 1..sh[4] |-> x.data[n][c][i][j] + y.value]]]])
    ELSE LET sa == Shape(x.data)
             sb == Shape(y.data)
         IN  IF ~Broadcastable(sa, sb) THEN Raise("ValueError")
             ELSE Tensor([n \in 1..Max(sa[1], sb[1]) |-> [c \in 1..Max(sa[2], sb[2]) |->
                     [i \in 1..Max(sa[3], sb[3]) |-> [j \in 1..Max(sa[4], sb[4]) |->
                         x.data[BIdx(sa[1], n)][BIdx(sa[2], c)][BIdx(sa[3], i)][BIdx(sa[4], j)]
                         + y.data[BIdx(sb[1], n)][BIdx(sb[2], c)][BIdx(sb[3], i)][BIdx(sb[4], j)]]]]])

\* The first exception among the items of a list comprehension, or None.
FirstError(items) ==
    IF \E k \in 1..Len(items) : items[k].kind = "error"
    THEN items[CHOOSE k \in 1..Len(items) :
                 /\ items[k].kind = "error"
                 /\ \A l \in 1..(k - 1) : items[l].kind # "error"]
    ELSE None

RECURSIVE PySumFrom(_, _, _)
\* Python's sum(items): ((0 + items[1]) + items[2]) + ...
PySumFrom(acc, items, k) ==
    IF k > Len(items) THEN acc ELSE PySumFrom(PyAdd(acc, items[k]), items, k + 1)

PySum(items) == PySumFrom(PyInt(0), items, 1)

\* SrcCoord without the half-pixel shift back when align_corners is False.
SrcCoordNoShift(align_corners, I, O, d) ==
    IF O = 1 THEN [i0 |-> 0, i1 |-> Min(1, I - 1), num |-> 0, den |-> 1]
    ELSE IF align_corners THEN
        LET s == d * (I - 1)
        IN  [i0 |-> s \div (O - 1), i1 |-> Min((s \div (O - 1)) + 1, I - 1),
             num |-> s % (O - 1), den |-> O - 1]
    ELSE
        LET s == Min((2 * d + 1) * I, 2 * O * (I - 1))
        IN  [i0 |-> s \div (2 * O), i1 |-> Min((s \div (2 * O)) + 1, I - 1),
             num |-> s % (2 * O), den |-> 2 * O]

\* The source coordinate of output index d (0-based) along one axis of a bilinear
\* resize from size I to size O: [i0, i1, num, den], the value being
\* ((den - num) * x[i0] + num * x[i1]) / den.
SrcCoord(align_corners, I, O, d) ==
    IF O = 1 THEN [i0 |-> 0, i1 |-> Min(1, I - 1), num |-> 0, den |-> 1]
    ELSE IF align_corners THEN
        LET s == d * (I - 1)
        IN  [i0 |-> s \div (O - 1), i1 |-> Min((s \div (O - 1)) + 1, I - 1),
             num |-> s % (O - 1), den |-> O - 1]
    ELSE
        LET s == Max((2 * d + 1) * I - O, 0)
        IN  [i0 |-> s \div (2 * O), i1 |-> Min((s \div (2 * O)) + 1, I - 1),
             num |-> s % (2 * O), den |-> 2 * O]

\* F.interpolate(x, size, mode='bilinear', align_corners): the values are
\* data[n][c][i][j] / den.
Interpolate(x, size, align_corners) ==
    IF x.kind # "tensor" THEN Raise("TypeError")
    ELSE LET sh == Shape(x.data)
             ch(i) == SrcCoord(align_corners, sh[3], size[1], i - 1)
             cw(j) == SrcCoord(align_corners, sh[4], size[2], j - 1)
         IN  [kind |-> "tensor",
              den |-> ch(1).den * cw(1).den,
              data |-> [n \in 1..sh[1] |-> [c \in 1..sh[2] |->
                 [i \in 1..size[1] |-> [j \in 1..size[2] |->
                    LET h == ch(i)
                        w == cw(j)
                        p == x.data[n][c]
                    IN  (h.den - h.num) * (w.den - w.num) * p[h.i0 + 1][w.i0 + 1]
                        + h.num * (w.den - w.num) * p[h.i1 + 1][w.i0 + 1]
                        + (h.den - h.num) * w.num * p[h.i0 + 1][w.i1 + 1]
                        + h.num * w.num * p[h.i1 + 1][w.i1 + 1]]]]]]

(* ------------------------------ backbone ------------------------------ *)

\* The backbones a model is built on: per-stage channel counts, per-stage
\* downsampling factors and one parameter w.
Backbones ==
    {[feat_channels |-> <<1, 2>>, strides |-> <<1, 2>>, w |-> 1]}

\* backbone(x): one feature map per stage, of the stage's declared channel
\* count and the input's size divided by the stage's downsampling factor.
BackboneForward(bb, x) ==
    LET sh == Shape(x)
    IN  [k \in 1..Len(bb.feat_channels) |->
            Tensor([n \in 1..sh[1] |-> [c \in 1..bb.feat_channels[k] |->
                [i \in 1..CeilDiv(sh[3], bb.strides[k]) |->
                    [j \in 1..CeilDiv(sh[4], bb.strides[k]) |->
                        bb.w * x[n][((c - 1) % sh[2]) + 1]
                                [(i - 1) * bb.strides[k] + 1][(j - 1) * bb.strides[k] + 1]
                        + (c - 1) + k]]]])]

(* ----------------------------- ASPPModule ----------------------------- *)

\* MakeBlocks with every branch padded by its ratio, ratio 1 included.
MakeBlocksPadRatio(aspp_ratios, in_channels, out_channels) ==
    [k \in 1..Len(aspp_ratios) |->
        Conv2D(k, in_channels, out_channels, KernelSize, aspp_ratios[k], aspp_ratios[k])]

\* MakeBlocks with branches that keep the input's channel count.
MakeBlocksKeepChannels(aspp_ratios, in_channels, out_channels) ==
    [k \in 1..Len(aspp_ratios) |->
        Conv2D(k, in_channels, in_channels, KernelSize, aspp_ratios[k],
               IF aspp_ratios[k] = 1 THEN 0 ELSE aspp_ratios[k])]

\* ASPPModule.__init__, the loop over aspp_ratios: one convolution per ratio.
MakeBlocks(aspp_ratios, in_channels, out_channels) ==
    [k \in 1..Len(aspp_ratios) |->
        Conv2D(k, in_channels, out_channels, KernelSize, aspp_ratios[k],
               IF aspp_ratios[k] = 1 THEN 0 ELSE aspp_ratios[k])]

\* ZeroBias left out: the biases keep the framework's initial values.
KeepBias(blocks) == blocks

\* ASPPModule.__init__, the loop over sublayers(): every convolution's bias
\* is set to zeros of its own shape.
ZeroBias(blocks) ==
    [k \in 1..Len(blocks) |->
        [blocks[k] EXCEPT !.bias = [o \in 1..Len(blocks[k].bias) |-> 0]]]

ASPPModule(aspp_ratios, in_channels, out_channels, align_corners) ==
    [align_corners |-> align_corners,
     data_format |-> "NCHW",
     aspp_blocks |-> ZeroBias(MakeBlocks(aspp_ratios, in_channels, out_channels))]

\* ASPPModule.forward: sum([block(x) for block in self.aspp_blocks])
ASPPForward(aspp, x) ==
    LET items == [k \in 1..Len(aspp.aspp_blocks) |-> ConvForward(aspp.aspp_blocks[k], x)]
    IN  IF FirstError(items).kind = "error" THEN FirstError(items) ELSE PySum(items)

(* ---------------------------- DeepLabV2Head --------------------------- *)

\* DeepLabV2Head.__init__; backbone_channels[0] raises on an empty list.
DeepLabV2Head(num_classes, backbone_indices, backbone_channels, aspp_ratios, align_corners) ==
    IF Len(backbone_channels) = 0 THEN Raise("IndexError")
    ELSE [kind |-> "object",
          aspp |-> ASPPModule(aspp_ratios, backbone_channels[1], num_classes,
                              align_corners),
          backbone_indices |-> backbone_indices]

\* HeadSelect taking the last configured index instead of the first.
HeadSelectLast(head, feat_list) ==
    IF PyInRange(feat_list, head.backbone_indices[Len(head.backbone_indices)])
    THEN PyIndex(feat_list, head.backbone_indices[Len(head.backbone_indices)])
    ELSE Raise("IndexError")

\* The feature map DeepLabV2Head.forward hands to ASPP.
HeadSelect(head, feat_list) ==
    IF PyInRange(feat_list, head.backbone_indices[1])
    THEN PyIndex(feat_list, head.backbone_indices[1])
    ELSE Raise("IndexError")

\* DeepLabV2Head.forward
HeadForward(head, feat_list) ==
    LET x == HeadSelect(head, feat_list)
    IN  IF x.kind = "error" THEN x ELSE ASPPForward(head.aspp, x)

(* ------------------------------ DeepLabV2 ----------------------------- *)

\* BackboneChannels looking up the first index only.
BackboneChannelsFirstOnly(feat_channels, backbone_indices) ==
    IF Len(backbone_indices) = 0 THEN [kind |-> "list", items |-> <<>>]
    ELSE IF ~PyInRange(feat_channels, backbone_indices[1]) THEN Raise("IndexError")
    ELSE [kind |-> "list", items |-> <<PyIndex(feat_channels, backbone_indices[1])>>]

\* [backbone.feat_channels[i] for i in backbone_indices]: every index is
\* looked up, and the first one out of range raises.
BackboneChannels(feat_channels, backbone_indices) ==
    IF \E k \in 1..Len(backbone_indices) : ~PyInRange(feat_channels, backbone_indices[k])
    THEN Raise("IndexError")
    ELSE [kind |-> "list",
          items |-> [k \in 1..Len(backbone_indices) |->
                        PyIndex(feat_channels, backbone_indices[k])]]

\* DeepLabV2.__init__ up to the call of init_weight: the object, or the
\* exception raised.
DeepLabV2(a) ==
    LET backbone_channels == BackboneChannels(a.backbone.feat_channels, a.backbone_indices)
    IN  IF backbone_channels.kind = "error" THEN backbone_channels
        ELSE LET head == DeepLabV2Head(a.num_classes, a.backbone_indices,
                                       backbone_channels.items, a.aspp_ratios,
                                       a.align_corners)
             IN  IF head.kind = "error" THEN head
                 ELSE [kind |-> "object",
                       backbone |-> a.backbone,
                       head |-> head,
                       align_corners |-> a.align_corners,
                       pretrained |-> a.pretrained]

\* DeepLabV2.forward, with the values it passes on the way:
\* x, the feature map given to ASPP, the logits and the returned list.
ForwardTrace(m, x) ==
    LET feat_list == BackboneForward(m.backbone, x)
        aspp_in == HeadSelect(m.head, feat_list)
        logit_list == HeadForward(m.head, feat_list)
        ori_shape == SubSeq(Shape(x), 3, 4)
        up == IF logit_list.kind = "error" THEN logit_list
              ELSE Interpolate(logit_list, ori_shape, m.align_corners)
    IN  [kind |-> "call", x |-> x, aspp_in |-> aspp_in, logit_list |-> logit_list,
         result |-> IF up.kind = "error" THEN up
                    ELSE [kind |-> "list", items |-> <<up>>]]

DeepLabV2Forward(m, x) == ForwardTrace(m, x).result

(* ---------------------------- weight loading -------------------------- *)

\* The shapes of the parameters of a model: per ASPP block <<out, in>>.
ParamShapes(m) ==
    [k \in 1..Len(m.head.aspp.aspp_blocks) |->
        <<m.head.aspp.aspp_blocks[k].out_channels,
          m.head.aspp.aspp_blocks[k].in_channels>>]

\* The persisted weight and bias of block k in a checkpoint.
CkptWeight(k, out_channels, in_channels) ==
    [o \in 1..out_channels |-> [ci \in 1..in_channels |->
        [a \in 1..KernelSize |-> [b \in 1..KernelSize |->
            ((2 * k + o + ci + a * b + b) % 4) - 1]]]]

CkptBias(k, out_channels) == [o \in 1..out_channels |-> k + o]

\* The checkpoint files a pretrained path may name when a model is built:
\* none, one saved from a model of the same structure, one with another
\* number of classes, one with another number of ASPP branches.
Checkpoints(m) ==
    LET own == ParamShapes(m)
    IN  {[kind |-> "file", exists |-> FALSE, shapes |-> <<>>, w |-> 0],
         [kind |-> "file", exists |-> TRUE, shapes |-> own, w |-> 2],
         [kind |-> "file", exists |-> TRUE, shapes |-> [k \in 1..Len(own) |-> <<own[k][1] + 1, own[k][2]>>],
          w |-> 2],
         [kind |-> "file", exists |-> TRUE, shapes |-> Append(own, <<1, 1>>), w |-> 2]}

\* utils.load_entire_model(model, pretrained): the model with every parameter
\* replaced by the persisted one, or the exception raised.
load_entire_model(m, ck) ==
    IF ~ck.exists THEN Raise("ValueError")
    ELSE IF ck.shapes # ParamShapes(m) THEN Raise("ValueError")
    ELSE LET blocks == m.head.aspp.aspp_blocks
         IN  [m EXCEPT
                !.backbone.w = ck.w,
                !.head.aspp.aspp_blocks =
                    [k \in 1..Len(blocks) |->
                        [blocks[k] EXCEPT
                            !.weight = CkptWeight(k, blocks[k].out_channels,
                                                  blocks[k].in_channels),
                            !.bias = CkptBias(k, blocks[k].out_channels)]]]

\* init_weight swallowing the exception of the load.
init_weight_swallow(m, ck) ==
    IF m.pretrained # "None" /\ load_entire_model(m, ck).kind # "error"
    THEN load_entire_model(m, ck) ELSE m

\* DeepLabV2.init_weight: loads only when a pretrained path was given; an
\* exception of the load is the constructor's.
init_weight(m, ck) ==
    IF m.pretrained # "None" THEN load_entire_model(m, ck) ELSE m

(* ------------------------------- inputs ------------------------------- *)

\* The constructor's arguments.
Args ==
    {[kind |-> "args", num_classes |-> nc, backbone |-> bb, backbone_indices |-> bi,
      aspp_ratios |-> ar, align_corners |-> ac, pretrained |-> pt] :
        nc \in 1..MaxClasses, bb \in Backbones,
        bi \in UNION {[1..n -> IndexValues] : n \in IndexLens},
        ar \in UNION {[1..n -> RatioValues] : n \in 0..MaxRatios},
        ac \in BOOLEAN, pt \in {"None", "model.pdparams"}}

InputValue(seed, n, c, i, j) == ((seed + i) * (i + 2 * j) + n + c) % 5

\* The input tensors x of forward.
Inputs ==
    {[n \in 1..sh[1] |-> [c \in 1..sh[2] |-> [i \in 1..sh[3] |-> [j \in 1..sh[4] |->
        InputValue(seed, n, c, i, j)]]]] : sh \in InputShapes, seed \in InputSeeds}

(* ------------------------------- actions ------------------------------ *)

Init ==
    /\ pc = "new"
    /\ args = None
    /\ model = None
    /\ err = "None"
    /\ loads = 0
    /\ ckpt = None
    /\ call = None

\* DeepLabV2.__init__, lines 40-50, with arguments a: the sub-layers are
\* built, or the exception leaves no object.
Construct ==
    /\ pc = "new"
    /\ \E a \in Args :
        /\ args' = a
        /\ LET m == DeepLabV2(a)
           IN  IF m.kind = "error"
               THEN /\ pc' = "failed"
                    /\ err' = m.err
                    /\ model' = None
               ELSE /\ pc' = "built"
                    /\ err' = "None"
                    /\ model' = m
    /\ UNCHANGED <<loads, ckpt, call>>

\* DeepLabV2.__init__, line 51: self.init_weight(), ck being the file the
\* pretrained path names.
InitWeight ==
    /\ pc = "built"
    /\ \E ck \in Checkpoints(model) :
        /\ LET m == init_weight(model, ck)
           IN  IF m.kind = "error"
               THEN /\ pc' = "failed"
                    /\ err' = m.err
                    /\ model' = None
               ELSE /\ pc' = "ready"
                    /\ err' = "None"
                    /\ model' = m
        /\ ckpt' = IF model.pretrained # "None" THEN ck ELSE None
    /\ loads' = IF model.pretrained # "None" THEN loads + 1 ELSE loads
    /\ UNCHANGED <<args, call>>

\* Forward loading the weights again on every call.
ForwardReload ==
    /\ pc = "ready"
    /\ \E x \in Inputs : call' = ForwardTrace(model, x)
    /\ \E ck \in Checkpoints(model) :
        model' = IF model.pretrained # "None" /\ load_entire_model(model, ck).kind # "error"
                 THEN load_entire_model(model, ck) ELSE model
    /\ loads' = loads + 1
    /\ UNCHANGED <<pc, args, err, ckpt>>

\* DeepLabV2.forward(x) on the constructed model.
Forward ==
    /\ pc = "ready"
    /\ \E x \in Inputs : call' = ForwardTrace(model, x)
    /\ UNCHANGED <<pc, args, model, err, loads, ckpt>>

Next == Construct \/ InitWeight \/ Forward

Spec == Init /\ [][Next]_vars

(* ------------------------------- claims ------------------------------- *)

\* The model is an object: construction got past line 50.
Built == pc \in {"built", "ready"}

\* forward has been called.
Called == call.kind = "call"

Blocks == model.head.aspp.aspp_blocks

\* Two upsampled tensors hold the same values (data / den each).
SameValues(t, u) ==
    /\ Shape(t.data) = Shape(u.data)
    /\ \A n \in 1..Len(t.data) : \A c \in 1..Len(t.data[1]) :
       \A i \in 1..Len(t.data[1][1]) : \A j \in 1..Len(t.data[1][1][1]) :
           t.data[n][c][i][j] * u.den = u.data[n][c][i][j] * t.den

\* C1: every forward call returns a list of exactly one tensor of shape
\* (B, num_classes, H, W), B, H, W being the input's. Stated for the
\* configurations with at least one dilation ratio.
C1_ForwardShape ==
    (Called /\ Len(args.aspp_ratios) > 0) =>
        /\ call.result.kind = "list"
        /\ Len(call.result.items) = 1
        /\ Shape(call.result.items[1].data) =
              <<Shape(call.x)[1], args.num_classes, Shape(call.x)[3], Shape(call.x)[4]>>

\* The convolution the claim describes for ratio r, with the weights of blk.
ClaimedBranch(blk, r) ==
    [blk EXCEPT !.kernel_size = 3, !.dilation = r, !.padding = IF r = 1 THEN 0 ELSE r]

\* The sum of branch outputs, element by element, a dimension of size 1
\* being repeated along the others' size: an exception when a branch raised
\* or two branches differ in a dimension in which neither has size 1.
ClaimedSum(branch) ==
    IF Len(branch) = 0 THEN PyInt(0)
    ELSE IF \E k \in 1..Len(branch) : branch[k].kind = "error" THEN Raise("ValueError")
    ELSE LET sh == [k \in 1..Len(branch) |-> Shape(branch[k].data)]
             dim(q) == IF \A k \in 1..Len(branch) : sh[k][q] = 1 THEN 1
                       ELSE sh[CHOOSE k \in 1..Len(branch) : sh[k][q] # 1][q]
         IN  IF \E q \in 1..4 : \E k \in 1..Len(branch) : sh[k][q] \notin {1, dim(q)}
             THEN Raise("ValueError")
             ELSE Tensor([n \in 1..dim(1) |-> [c \in 1..dim(2) |->
                     [i \in 1..dim(3) |-> [j \in 1..dim(4) |->
                         SumFn([k \in 1..Len(branch) |->
                                   branch[k].data[IF sh[k][1] = 1 THEN 1 ELSE n]
                                                 [IF sh[k][2] = 1 THEN 1 ELSE c]
                                                 [IF sh[k][3] = 1 THEN 1 ELSE i]
                                                 [IF sh[k][4] = 1 THEN 1 ELSE j]],
                               Len(branch))]]]])

C3_Original ==
    (Called /\ call.logit_list.kind # "error") =>
        /\ call.logit_list.kind = "tensor"
        /\ Shape(call.logit_list.data)[2] = args.num_classes

\* C3, amended: for every positive number of ratios, whatever
\* ASPPModule.forward returns is a tensor with num_classes channels; with no
\* ratio it returns the integer 0.
C3_ChannelCount ==
    (Called /\ call.logit_list.kind # "error") =>
        IF Len(args.aspp_ratios) > 0
        THEN /\ call.logit_list.kind = "tensor"
             /\ Shape(call.logit_list.data)[2] = args.num_classes
        ELSE call.logit_list = PyInt(0)

\* C3's case: two branches, and a class count that differs from the input's
\* channel count.
C3_Witness ==
    /\ Called
    /\ Len(args.aspp_ratios) = 2
    /\ call.logit_list.kind = "tensor"
    /\ Shape(call.aspp_in.data)[2] # args.num_classes

\* C4: after the sub-layers are built and before any weight load, every
\* component of every ASPP branch's bias is zero.
C4_BiasZero ==
    (Built /\ loads = 0) =>
        \A k \in 1..Len(Blocks) : \A o \in 1..Len(Blocks[k].bias) : Blocks[k].bias[o] = 0

\* C4's case: a model just built, with two branches of two classes each.
C4_Witness ==
    /\ pc = "built"
    /\ Len(Blocks) = 2
    /\ Len(Blocks[1].bias) = 2

\* The parameter shapes of the model the arguments describe.
ArgShapes ==
    [k \in 1..Len(args.aspp_ratios) |->
        <<args.num_classes,
          PyIndex(args.backbone.feat_channels, args.backbone_indices[1])>>]

\* C5: a load from a missing or structurally incompatible checkpoint raises
\* to the caller of the constructor and leaves no model; a load that
\* succeeds leaves every parameter of backbone and head at its persisted
\* value.
C5_LoadOutcome ==
    loads > 0 =>
        IF ~ckpt.exists \/ ckpt.shapes # ArgShapes
        THEN /\ pc = "failed"
             /\ err = "ValueError"
             /\ model = None
             /\ call = None
        ELSE /\ pc = "ready"
             /\ model.backbone.w = ckpt.w
             /\ \A k \in 1..Len(Blocks) :
                   /\ Blocks[k].weight =
                          CkptWeight(k, Blocks[k].out_channels, Blocks[k].in_channels)
                   /\ Blocks[k].bias = CkptBias(k, Blocks[k].out_channels)

\* C5's case: the checkpoint exists and its shapes are not the model's.
C5_Witness ==
    /\ loads = 1
    /\ ckpt.exists
    /\ ckpt.shapes # ArgShapes
    /\ pc = "failed"

\* Some configured backbone index is out of range for feat_channels.
IndexOutOfRange ==
    \E k \in 1..Len(args.backbone_indices) :
        ~PyInRange(args.backbone.feat_channels, args.backbone_indices[k])

\* C6: with a backbone index out of range for the backbone's channel list,
\* construction fails with the error raised to the caller: no model object,
\* no weight load and no forward call follow.
C6_IndexError ==
    (pc # "new" /\ IndexOutOfRange) =>
        /\ pc = "failed"
        /\ err = "IndexError"
        /\ model = None
        /\ loads = 0
        /\ call = None

\* C6's case: the first index is in range and a later one is not.
C6_Witness ==
    /\ pc = "failed"
    /\ Len(args.backbone_indices) = 2
    /\ PyInRange(args.backbone.feat_channels, args.backbone_indices[1])
    /\ ~PyInRange(args.backbone.feat_channels, args.backbone_indices[2])

\* The model that differs in the corner-alignment flag only.
OtherFlag == [model EXCEPT !.align_corners = ~@, !.head.aspp.align_corners = ~@]

\* The input's height and width are even.
EvenSized == Shape(call.x)[3] % 2 = 0 /\ Shape(call.x)[4] % 2 = 0

\* C7 as stated: on an even-sized input the two flag values give outputs of
\* the same shape and of different values.
C7_Original ==
    (Called /\ call.result.kind = "list" /\ EvenSized) =>
        LET other == DeepLabV2Forward(OtherFlag, call.x)
        IN  /\ other.kind = "list"
            /\ Shape(other.items[1].data) = Shape(call.result.items[1].data)
            /\ ~SameValues(other.items[1], call.result.items[1])

\* C7, amended: the two flag values give outputs of the same shape; the
\* values are the same whenever the logits already have the input's height
\* and width.
C7_AlignFlag ==
    (Called /\ call.result.kind = "list") =>
        LET other == DeepLabV2Forward(OtherFlag, call.x)
        IN  /\ other.kind = "list"
            /\ Shape(other.items[1].data) = Shape(call.result.items[1].data)
            /\ SubSeq(Shape(call.logit_list.data), 3, 4) = SubSeq(Shape(call.x), 3, 4)
                  => SameValues(other.items[1], call.result.items[1])

\* C7's case: an even-sized input on which the two flag values differ in
\* the values of the output.
C7_Witness ==
    /\ Called
    /\ call.result.kind = "list"
    /\ EvenSized
    /\ ~SameValues(DeepLabV2Forward(OtherFlag, call.x).items[1], call.result.items[1])

\* C8: a forward call changes neither the configuration nor any parameter
\* and loads no weights, and a repeated call on the same input returns the
\* same output; weights are loaded at most once, and only with a pretrained
\* path.
C8_ForwardFrame ==
    /\ [][pc = "ready" =>
            /\ pc' = "ready"
            /\ args' = args
            /\ model' = model
            /\ loads' = loads
            /\ (Called /\ call'.x = call.x) => call'.result = call.result]_vars
    /\ [](loads <= 1 /\ (loads = 1 => args.pretrained # "None"))

\* C8's case: a forward call on a model whose weights were loaded.
C8_Witness ==
    /\ Called
    /\ loads = 1
    /\ call.result.kind = "list"

\* C9: the feature map given to ASPP is the one at backbone_indices[0] of
\* the backbone's output, every branch's input channel count is
\* feat_channels[backbone_indices[0]], the channel count of that feature
\* map, and the indices after the first do not change the output.
C9_FirstIndex ==
    Built =>
        /\ \A k \in 1..Len(Blocks) :
              Blocks[k].in_channels =
                  PyIndex(model.backbone.feat_channels, args.backbone_indices[1])
        /\ Called =>
              /\ call.aspp_in =
                     PyIndex(BackboneForward(model.backbone, call.x), args.backbone_indices[1])
              /\ Shape(call.aspp_in.data)[2] =
                     PyIndex(model.backbone.feat_channels, args.backbone_indices[1])
              /\ call.result =
                     DeepLabV2Forward(
                         [model EXCEPT !.head.backbone_indices = <<args.backbone_indices[1]>>],
                         call.x)

\* C9's case: two configured indices naming different stages.
C9_Witness ==
    /\ Called
    /\ Len(args.backbone_indices) = 2
    /\ PyIndex(model.backbone.feat_channels, args.backbone_indices[1]) #
           PyIndex(model.backbone.feat_channels, args.backbone_indices[2])
    /\ call.result.kind = "list"

\* C10: all ASPP branches produce outputs of the same height and width on
\* the feature map they are given.
C10_BranchShapes ==
    (Called /\ call.aspp_in.kind = "tensor") =>
        \A k, l \in 1..Len(Blocks) :
            /\ ConvOutSize(Blocks[k], Shape(call.aspp_in.data)[3]) =
               ConvOutSize(Blocks[l], Shape(call.aspp_in.data)[3])
            /\ ConvOutSize(Blocks[k], Shape(call.aspp_in.data)[4]) =
               ConvOutSize(Blocks[l], Shape(call.aspp_in.data)[4])

====
